---- MODULE Spec2Model ----
(***************************************************************************)
(* The resumable chunked ingestion of src/ingest/quickstats.py: run()      *)
(* plans one job per (dataset, year window), skips the jobs whose id is in *)
(* the persisted completion state, and for each pending job fetches,       *)
(* stores, marks and sleeps.  The process can be killed between any two    *)
(* calls and is then started again.                                        *)
(***************************************************************************)
EXTENDS Integers, Sequences, FiniteSets, TLC

VARIABLES
    catalog,    \* DATASETS: sequence of [key, name, desc, year_ranges]
    persisted,  \* the "completed" list of the nass_quickstats state document
    raw,        \* raw storage: artifact name -> payload written by save_raw_json
    pc,         \* where the process is
    api_key,    \* whether NASS_API_KEY was set for the last started process
    completed,  \* run()'s local set, completed
    all_jobs,   \* run()'s local list, all_jobs
    i,          \* position of the loop over all_jobs (1-based)
    data,       \* run()'s local, data (the records of the current job)
    err,        \* message of the exception that ended the process, or ""
    initial,    \* history: the state document before the first process
    loaded,     \* history: the set load_state returned at this run's start
    trace,      \* history: the external calls of the current process, in order
    settled,    \* history: ids whose fetch came back empty or whose store returned
    prev,       \* history: how the previous process ended
    redo,       \* history: id stored but not marked when the previous process was killed
    torn,       \* history: unmarked ids a process was killed at between their store and their mark
    requests    \* history: the get() calls of the current process

vars == <<catalog, persisted, raw, pc, api_key, completed, all_jobs, i, data, err,
          initial, loaded, trace, settled, prev, redo, torn, requests>>

----------------------------------------------------------------------------
(* Bounds of the model *)

MaxDatasets == 2

MaxRecords == 3

----------------------------------------------------------------------------
(* Catalogs *)

Dataset(key, name, desc, year_ranges) ==
    [key |-> key, name |-> name, desc |-> desc, year_ranges |-> year_ranges]

\* DatasetSpecs the catalogs are drawn from.  The windows of one dataset
\* are pairwise different, as they are in DATASETS.
DatasetPool ==
    { Dataset("corn_production", "Corn Production",
              "Corn production by state (totals)", << <<1990, 2024>> >>),
      Dataset("corn_production", "Corn Production",
              "Corn production by state (totals)",
              << <<1950, 1989>>, <<1990, 2025>> >>),
      Dataset("milk_production", "Milk Production",
              "Milk production by state (totals)", << <<1950, 2025>> >>),
      Dataset("eggs_production", "Eggs Production",
              "Eggs production by state (totals)", << <<1950, 2025>> >>) }

\* A Python dict holds each key once and keeps the order of definition.
CatalogsOver(pool) ==
    UNION { { c \in [1..n -> pool] :
                \A a, b \in 1..n : a # b => c[a].key # c[b].key }
            : n \in 1..MaxDatasets }

Catalogs == CatalogsOver(DatasetPool)

\* A dataset may list the same window twice: its two jobs have one job_key.
RepeatPool ==
    { Dataset("corn_production", "Corn Production",
              "Corn production by state (totals)",
              << <<1950, 1989>>, <<1950, 1989>> >>),
      Dataset("milk_production", "Milk Production",
              "Milk production by state (totals)", << <<1950, 2025>> >>) }

\* The catalog of the repeated runs: three jobs over two datasets.
LiveCatalogs ==
    { << Dataset("corn_production", "Corn Production",
                 "Corn production by state (totals)",
                 << <<1950, 1989>>, <<1990, 2025>> >>),
         Dataset("milk_production", "Milk Production",
                 "Milk production by state (totals)", << <<1950, 2025>> >>) >> }

\* An id left in the state document by an earlier version of the catalog.
RetiredId == "rye_production_1950_2025"

----------------------------------------------------------------------------
(* Pure parts of run() and fetch_data() *)

\* A bug: the year bounds are put in the id the wrong way round.
JobKeySwapped(dataset_key, year_start, year_end) ==
    dataset_key \o "_" \o ToString(year_end) \o "_" \o ToString(year_start)

JobKey(dataset_key, year_start, year_end) ==
    dataset_key \o "_" \o ToString(year_start) \o "_" \o ToString(year_end)

\* A bug: the artifact is named after the dataset alone.
ArtifactNameNoYears(dataset_key, year_start, year_end) == "nass_" \o dataset_key

ArtifactName(dataset_key, year_start, year_end) ==
    "nass_" \o dataset_key \o "_" \o ToString(year_start) \o "_" \o ToString(year_end)

Job(ds, w) ==
    [dataset_key |-> ds.key, name |-> ds.name, desc |-> ds.desc,
     year_start |-> w[1], year_end |-> w[2],
     job_key |-> JobKey(ds.key, w[1], w[2])]

\* A bug: the loop over the windows stops at the first completed one
\* (break where the code skips).
RECURSIVE WindowJobsStopAtDone(_, _, _)
WindowJobsStopAtDone(ds, k, done) ==
    IF k > Len(ds.year_ranges) THEN <<>>
    ELSE LET job == Job(ds, ds.year_ranges[k])
         IN  IF job.job_key \notin done
             THEN <<job>> \o WindowJobsStopAtDone(ds, k + 1, done)
             ELSE <<>>

RECURSIVE WindowJobs(_, _, _)
WindowJobs(ds, k, done) ==
    IF k > Len(ds.year_ranges) THEN <<>>
    ELSE LET job == Job(ds, ds.year_ranges[k])
         IN  (IF job.job_key \notin done THEN <<job>> ELSE <<>>)
             \o WindowJobs(ds, k + 1, done)

\* A bug: the datasets are gone through from the last to the first.
RECURSIVE PlanFromReversed(_, _, _)
PlanFromReversed(cat, d, done) ==
    IF d > Len(cat) THEN <<>>
    ELSE PlanFromReversed(cat, d + 1, done) \o WindowJobs(cat[d], 1, done)

RECURSIVE PlanFrom(_, _, _)
PlanFrom(cat, d, done) ==
    IF d > Len(cat) THEN <<>>
    ELSE WindowJobs(cat[d], 1, done) \o PlanFrom(cat, d + 1, done)

\* The full plan: what run() builds from an empty completion state.
Plan(cat) == PlanFrom(cat, 1, {})

\* A bug: the filter on the completed ids is left out.
PendingAll(cat, done) == Plan(cat)

\* A bug: a dataset with one window done is taken to be done (the filter
\* looks at the dataset, not at the job).
PendingByDataset(cat, done) ==
    SelectSeq(Plan(cat),
              LAMBDA job : \A k \in 1..Len(Plan(cat)) :
                  Plan(cat)[k].dataset_key = job.dataset_key
                      => Plan(cat)[k].job_key \notin done)

\* The list run() builds: every (dataset, window) whose job_key is not in done.
Pending(cat, done) == PlanFrom(cat, 1, done)

\* A bug: the state document is not read, every run starts from scratch.
LoadCompletedFresh(doc) == {}

\* set(state.get("completed", []))
LoadCompleted(doc) == doc

\* A bug: save_state is handed an empty list.
StateDocEmpty(done) == {}

\* {"completed": list(completed)}
StateDoc(done) == done

\* A response body: the fields it holds, and their values.  The records
\* are opaque to run(); only their number matters.
Records(n) == [r \in 1..n |-> "record"]

RecordCounts == {0, MaxRecords}

ErrorMessages == {"invalid commodity"}

Response(fields, error, recs) == [fields |-> fields, error |-> error, data |-> recs]

Responses ==
    { Response({}, "", <<>>) }
    \cup { Response({"data"}, "", Records(n)) : n \in RecordCounts }
    \cup { Response({"error"}, m, <<>>) : m \in ErrorMessages }
    \cup { Response({"error", "data"}, m, Records(1)) : m \in ErrorMessages }

\* A bug: a body that holds data is taken for a result, error field or not.
FetchDataPartial(result) ==
    IF "data" \in result.fields
    THEN [raised |-> FALSE, message |-> "", data |-> result.data]
    ELSE IF "error" \in result.fields
    THEN [raised |-> TRUE, message |-> "NASS API error: " \o result.error, data |-> <<>>]
    ELSE [raised |-> FALSE, message |-> "", data |-> <<>>]

\* What fetch_data does with the parsed body.
FetchData(result) ==
    IF "error" \in result.fields
    THEN [raised |-> TRUE, message |-> "NASS API error: " \o result.error, data |-> <<>>]
    ELSE IF "data" \notin result.fields
    THEN [raised |-> FALSE, message |-> "", data |-> <<>>]
    ELSE [raised |-> FALSE, message |-> "", data |-> result.data]

\* A bug: the request is sent again when it fails.
AttemptsRetry(result) ==
    IF result.fields \cap {"error", "transport"} # {} THEN 2 ELSE 1

\* The get() calls of one fetch_data call: there is one, outside any loop
\* or handler, whatever comes back.
Attempts(result) == 1

\* get() raises (timeout, connection or HTTP error): there is no body.
TransportBody == Response({"transport"}, "", <<>>)

TransportFailure == [raised |-> TRUE, message |-> "transport error", data |-> <<>>]

\* A bug: the key is read with a default (os.environ.get), so the import
\* goes through without it.
AfterImportLenient(has_key) == "run"

\* API_KEY = os.environ["NASS_API_KEY"] runs when main.py imports the
\* module: without the variable it raises KeyError before main() is called.
AfterImport(has_key) == IF has_key THEN "run" ELSE "config_error"

\* A bug: run() catches the exception and goes on with the job.
OnRaiseSwallowed == "mark"

\* run() has no try/except around fetch_data: the exception ends the process.
OnRaise == "aborted"

\* A bug: the result of the fetch is marked without being stored.
AfterFetchSkipStore(d) == "mark"

\* A bug: save_raw_json is called whatever the result holds.
AfterFetchStoreAlways(d) == "store"

\* if data: ... save_raw_json ... else: ...
AfterFetch(d) == IF d # <<>> THEN "store" ELSE "mark"

Payload(job, d) ==
    [key |-> job.dataset_key, name |-> job.name, description |-> job.desc,
     year_start |-> job.year_start, year_end |-> job.year_end, data |-> d]

\* A bug: the set is replaced by the job just completed.
MarkCompleteOnly(done, job_key) == {job_key}

\* completed.add(job_key)
MarkComplete(done, job_key) == done \cup {job_key}

\* A bug: save_state is left of the loop, and runs once after the last job.
SaveDueAtEnd(k, n) == k = n

\* save_state is in the loop body: it runs after every job.
SaveDue(k, n) == TRUE

\* A bug: the delay is in the branch that stores, so a job without data
\* is followed at once by the next request.
SleepDueStoredOnly(d) == d # <<>>

\* time.sleep(1) is in the loop body, after save_state: it runs after every
\* job, with data or without.
SleepDue(d) == TRUE

\* A bug: the loop is left after its first job.
AfterSleepBreak(k, n) == "done"

\* The loop goes on to the next job, or run() returns.
AfterSleep(k, n) == IF k < n THEN "fetch" ELSE "done"

----------------------------------------------------------------------------
(* History *)

NoBody == Response({}, "", <<>>)

\* A call: its kind, the job id or artifact name it is about, and for a
\* fetch the response body and what fetch_data made of it.
Event(op, id, res, body) == [op |-> op, id |-> id, res |-> res, body |-> body]

Call(op, id) == Event(op, id, "", NoBody)

Ended == {"done", "uptodate", "aborted", "killed", "config_error"}

Running == {"run", "fetch", "store", "mark", "sleep"}

Cur == all_jobs[i]

----------------------------------------------------------------------------
(* The state after construction *)

\* The state document a first process can find: none (load_state then gives
\* an empty one), or the ids left by runs over earlier versions of the catalog.
InitialStates(cat) ==
    SUBSET ({ Plan(cat)[k].job_key : k \in 1..Len(Plan(cat)) } \cup {RetiredId})

InitOver(cats) ==
    /\ catalog \in cats
    /\ persisted \in InitialStates(catalog)
    /\ initial = persisted
    /\ raw = <<>>
    /\ pc = "idle"
    /\ api_key = TRUE
    /\ completed = {}
    /\ all_jobs = <<>>
    /\ i = 0
    /\ data = <<>>
    /\ err = ""
    /\ loaded = {}
    /\ trace = <<>>
    /\ settled = {}
    /\ prev = "none"
    /\ redo = "none"
    /\ torn = {}
    /\ requests = 0

Init == InitOver(Catalogs)

----------------------------------------------------------------------------
(* Steps *)

\* The process starts: main.py imports ingest.quickstats, whose line 21
\* reads NASS_API_KEY from the environment and raises when it is absent.
ProcessStart ==
    /\ pc \in Ended \cup {"idle"}
    /\ \E has_key \in BOOLEAN :
         /\ api_key' = has_key
         /\ pc' = AfterImport(has_key)
         /\ err' = IF AfterImport(has_key) = "run" THEN "" ELSE "KeyError: NASS_API_KEY"
    /\ prev' = IF pc = "idle" THEN "none" ELSE pc
    /\ redo' = IF pc \in {"killed", "config_error"} THEN redo ELSE "none"
    /\ completed' = {}
    /\ all_jobs' = <<>>
    /\ i' = 0
    /\ data' = <<>>
    /\ loaded' = {}
    /\ trace' = <<>>
    /\ requests' = 0
    /\ UNCHANGED <<catalog, initial, persisted, raw, settled, torn>>

\* run() up to its loop: load_state, the pending list, the early return.
RunStart ==
    /\ pc = "run"
    /\ LET done == LoadCompleted(persisted)
           jobs == Pending(catalog, done)
       IN  /\ completed' = done
           /\ loaded' = persisted
           /\ all_jobs' = jobs
           /\ i' = IF jobs = <<>> THEN 0 ELSE 1
           /\ pc' = IF jobs = <<>> THEN "uptodate" ELSE "fetch"
    /\ trace' = Append(trace, Call("load", ""))
    /\ UNCHANGED <<catalog, api_key, initial, persisted, raw, data, err, settled, prev, redo, torn, requests>>

\* data = fetch_data(...): one request; the body, or a failure of the transport.
Fetch ==
    /\ pc = "fetch"
    /\ \E r \in Responses \cup {TransportBody} :
         /\ requests' = requests + Attempts(r)
         /\ LET out == IF r = TransportBody THEN TransportFailure ELSE FetchData(r)
            IN
            IF out.raised
            THEN /\ pc' = OnRaise
                 /\ err' = out.message
                 /\ trace' = Append(trace, Event("fetch", Cur.job_key, "raise", r))
                 /\ UNCHANGED <<data, settled>>
            ELSE /\ pc' = AfterFetch(out.data)
                 /\ data' = out.data
                 /\ trace' = Append(trace, Event("fetch", Cur.job_key,
                                      IF out.data = <<>> THEN "empty" ELSE "records", r))
                 /\ settled' = IF out.data = <<>> THEN settled \cup {Cur.job_key}
                               ELSE settled
                 /\ UNCHANGED err
    /\ UNCHANGED <<catalog, api_key, initial, persisted, raw, completed, all_jobs, i, loaded, prev, redo, torn>>

\* save_raw_json(payload, name, compress=True)
Store ==
    /\ pc = "store"
    /\ LET name == ArtifactName(Cur.dataset_key, Cur.year_start, Cur.year_end)
       IN  /\ raw' = [n \in DOMAIN raw \cup {name} |->
                        IF n = name THEN Payload(Cur, data) ELSE raw[n]]
           /\ trace' = Append(trace, Call("store", name))
    /\ settled' = settled \cup {Cur.job_key}
    /\ pc' = "mark"
    /\ UNCHANGED <<catalog, api_key, initial, persisted, completed, all_jobs, i, data, err, loaded,
                   prev, redo, torn, requests>>

\* completed.add(job_key); save_state("nass_quickstats", {"completed": list(completed)})
Mark ==
    /\ pc = "mark"
    /\ completed' = MarkComplete(completed, Cur.job_key)
    /\ IF SaveDue(i, Len(all_jobs))
       THEN /\ persisted' = StateDoc(completed')
            /\ trace' = Append(trace, Call("save", Cur.job_key))
       ELSE UNCHANGED <<persisted, trace>>
    /\ torn' = torn \ persisted'
    /\ pc' = "sleep"
    /\ UNCHANGED <<catalog, api_key, initial, raw, all_jobs, i, data, err, loaded, settled, prev, redo, requests>>

\* time.sleep(1), then the next iteration or the return of run()
Sleep ==
    /\ pc = "sleep"
    /\ trace' = IF SleepDue(data) THEN Append(trace, Call("sleep", "")) ELSE trace
    /\ pc' = AfterSleep(i, Len(all_jobs))
    /\ i' = IF i < Len(all_jobs) THEN i + 1 ELSE i
    /\ UNCHANGED <<catalog, api_key, initial, persisted, raw, completed, all_jobs, data, err, loaded,
                   settled, prev, redo, torn, requests>>

\* The process is killed between two calls; its memory is lost.
Kill ==
    /\ pc \in Running
    /\ redo' = IF pc = "mark" /\ data # <<>> /\ Cur.job_key \notin persisted
               THEN Cur.job_key ELSE "none"
    /\ torn' = IF pc = "mark" /\ data # <<>> THEN torn \cup {Cur.job_key} ELSE torn
    /\ pc' = "killed"
    /\ UNCHANGED <<catalog, api_key, initial, persisted, raw, completed, all_jobs, i, data, err, loaded,
                   trace, settled, prev, requests>>

Next ==
    \/ ProcessStart
    \/ RunStart
    \/ Fetch
    \/ Store
    \/ Mark
    \/ Sleep
    \/ Kill

Spec == Init /\ [][Next]_vars

----------------------------------------------------------------------------
(* Reading the history *)

\* The positions of the calls of one kind in the current process.
Calls(op) == { p \in 1..Len(trace) : trace[p].op = op }

\* The ids passed to fetch_data by the current process, in order.
FetchSeq ==
    LET f == SelectSeq(trace, LAMBDA e : e.op = "fetch")
    IN  [p \in 1..Len(f) |-> f[p].id]

JobIds(jobs) == [p \in 1..Len(jobs) |-> jobs[p].job_key]

SetOf(seq) == { seq[p] : p \in 1..Len(seq) }

CatalogIds == SetOf(JobIds(Plan(catalog)))

\* run() is past its planning.
Planned == pc \in {"fetch", "store", "mark", "sleep", "done", "aborted", "uptodate"}

IsPrefix(a, b) == Len(a) <= Len(b) /\ \A p \in 1..Len(a) : a[p] = b[p]

\* The (dataset, window) places of the catalog, and their order of definition.
Slots ==
    UNION { { <<d, w>> : w \in 1..Len(catalog[d].year_ranges) }
            : d \in 1..Len(catalog) }

SlotId(s) ==
    JobKey(catalog[s[1]].key, catalog[s[1]].year_ranges[s[2]][1],
           catalog[s[1]].year_ranges[s[2]][2])

SlotBefore(s, t) == s[1] < t[1] \/ (s[1] = t[1] /\ s[2] < t[2])

\* The ids of the places whose id is not in done, in the order of definition.
IdsInOrder(done) ==
    LET P == { s \in Slots : SlotId(s) \notin done }
    IN  [p \in 1..Cardinality(P) |->
            SlotId(CHOOSE s \in P :
                       Cardinality({ t \in P : SlotBefore(t, s) }) = p - 1)]

\* The ids of the save_state calls of a history.
SavedIds(t) == { t[q].id : q \in { r \in 1..Len(t) : t[r].op = "save" } }

\* The state of a run that has planned, also after its process was killed.
RunPlanned == Len(trace) >= 1

\* run() has built all_jobs and made no further call; the list is not
\* assigned again in the run.
JustPlanned == Len(trace) = 1

----------------------------------------------------------------------------
(* The claims *)

\* C1: a job id that a run has added to the persisted completion state is
\* the id of a job whose fetch came back empty, or whose save_raw_json had
\* returned, before the save_state that persisted it.  The mark never
\* precedes the store.
C1_MarkNeverBeforeStore ==
    /\ persisted \ initial \subseteq settled
    /\ persisted \ initial \subseteq CatalogIds

\* C1, witness: a job with records is stored and marked, and a process has
\* been killed.
C1_Witness ==
    /\ pc = "killed"
    /\ \E k \in 1..Len(Plan(catalog)) :
         LET job == Plan(catalog)[k]
         IN  /\ job.job_key \in persisted \ initial
             /\ ArtifactName(job.dataset_key, job.year_start, job.year_end)
                  \in DOMAIN raw

\* C2: when the previous process was killed after job k's save_raw_json had
\* returned and before save_state had persisted k's id, the next run finds
\* k pending, at the head of its list; its first fetch is k's, the records
\* it returns are stored again under k's artifact name, and k's id is then
\* persisted.  The run does not skip k.
C2_KilledJobRedone ==
    (redo # "none" /\ Planned) =>
        /\ pc # "uptodate"
        /\ all_jobs # <<>>
        /\ all_jobs[1].job_key = redo
        /\ Len(trace) >= 2 =>
              /\ trace[2].op = "fetch"
              /\ trace[2].id = redo
        /\ (Len(trace) >= 3 /\ trace[2].res = "records") =>
              /\ trace[3].op = "store"
              /\ trace[3].id = ArtifactName(all_jobs[1].dataset_key,
                                            all_jobs[1].year_start, all_jobs[1].year_end)
              /\ trace[3].id \in DOMAIN raw
        /\ (Len(trace) >= 4 /\ trace[2].res = "records") =>
              /\ trace[4].op = "save"
              /\ trace[4].id = redo
              /\ redo \in persisted
        /\ (Len(trace) >= 3 /\ trace[2].res = "empty") =>
              /\ trace[3].op = "save"
              /\ trace[3].id = redo
              /\ redo \in persisted
        /\ pc = "done" => redo \in persisted

\* C2, witness: the run after such a kill has fetched k, stored it again,
\* marked it and returned.
C2_Witness ==
    /\ redo # "none"
    /\ pc = "done"
    /\ trace[2].res = "records"
    /\ trace[3].op = "store"
    /\ redo \in persisted

\* C3: when fetch_data raises for job k, that fetch is the last call of the
\* run (no further fetch, store, save_state or sleep), the process has ended
\* with the error, k's id is not in the persisted completion state, and the
\* persisted state is the loaded one plus the ids of the jobs marked before.
C3_RaiseAbortsRun ==
    \A p \in Calls("fetch") :
        trace[p].res = "raise" =>
            /\ p = Len(trace)
            /\ pc = "aborted"
            /\ err # ""
            /\ trace[p].id \notin persisted
            /\ persisted = loaded \cup { trace[q].id : q \in Calls("save") }
            /\ Cardinality(Calls("save")) = Cardinality(Calls("fetch")) - 1

\* C3, witness: a fetch raises after an earlier job of the run was marked.
C3_Witness ==
    /\ pc = "aborted"
    /\ Calls("save") # {}
    /\ trace[Len(trace)].res = "raise"

\* C4: in a run that follows an aborted or a killed run, the ids passed to
\* fetch_data are, in order, the ids of the catalog's (dataset, window)
\* places that are absent from the state persisted at the run's start, in
\* catalog order then window order: the run works down that list from its
\* first entry, has fetched all of it when it returns, and fetches no id
\* that was persisted at its start.
C4_ResumeAtFirstPending ==
    (prev \in {"aborted", "killed"} /\ RunPlanned) =>
        LET want == IdsInOrder(loaded)
            got == FetchSeq
        IN  /\ IsPrefix(got, want)
            /\ pc \in {"done", "uptodate"} => got = want
            /\ SetOf(got) \cap loaded = {}

\* C4, witness: a run after an aborted or killed run, which finds an id
\* marked by an earlier run, fetches the remaining jobs and returns.
C4_Witness ==
    /\ prev \in {"aborted", "killed"}
    /\ pc = "done"
    /\ (loaded \ initial) \cap CatalogIds # {}
    /\ Len(FetchSeq) >= 1

\* C5: in a process that follows a run that returned without error, on the
\* same catalog and persisted state, run() makes no fetch_data, no
\* save_raw_json and no save_state call, and finds nothing to do.
C5_SecondRunIdle ==
    prev \in {"done", "uptodate"} =>
        /\ Calls("fetch") = {}
        /\ Calls("store") = {}
        /\ Calls("save") = {}
        /\ RunPlanned => pc \in {"uptodate"}

\* C5, witness: a run that fetched and marked jobs returned, and the run
\* that follows it has found nothing to do.
C5_Witness ==
    /\ prev = "done"
    /\ pc = "uptodate"
    /\ persisted # initial

\* C6: the persisted set never shrinks, and each save_state writes the full
\* set: what was persisted before plus the id of the job just completed,
\* which holds the set loaded at the run's start, ids of no job of the
\* catalog included.
C6_StateGrows ==
    [][ /\ persisted \subseteq persisted'
        /\ (Len(trace') > Len(trace) /\ trace'[Len(trace')].op = "save") =>
              /\ loaded \subseteq persisted'
              /\ persisted' = persisted \cup {trace'[Len(trace')].id}
              /\ persisted' = loaded \cup SavedIds(trace')
      ]_vars

\* C6, witness: a run that loaded an id of no job of the catalog has saved
\* the state twice, and the id is still there.
C6_Witness ==
    /\ RetiredId \in loaded
    /\ Cardinality(Calls("save")) >= 2
    /\ RetiredId \in persisted
    /\ Cardinality(persisted \ loaded) >= 2

\* C7: at every point of a run at most one id whose fetch was started in
\* the run is absent from the persisted state, and it is the last one
\* fetched: between two fetches in a row there is exactly one save_state,
\* and it persists the id of the earlier one.
C7_OnlyInFlightUnmarked ==
    /\ Cardinality(SetOf(FetchSeq) \ persisted) <= 1
    /\ \A p \in Calls("fetch") :
         (\E q \in Calls("fetch") : q > p) =>
             LET q == CHOOSE n \in Calls("fetch") :
                          n > p /\ \A r \in Calls("fetch") : r > p => n <= r
                 between == { n \in Calls("save") : p < n /\ n < q }
             IN  /\ Cardinality(between) = 1
                 /\ \A n \in between : trace[n].id = trace[p].id
                 /\ trace[p].id \in persisted

\* C7, witness: a process is killed with its third job in flight; the two
\* jobs before it are marked, the third is not.
C7_Witness ==
    /\ pc = "killed"
    /\ Len(FetchSeq) = 3
    /\ FetchSeq[3] \notin persisted
    /\ {FetchSeq[1], FetchSeq[2]} \subseteq persisted \ loaded

\* C8: a body with neither a data nor an error field, and a body whose data
\* list is empty, make fetch_data return no records; after such a fetch the
\* run calls no save_raw_json for the job: its next call is the save_state
\* that persists the job's id, then the sleep, then the fetch of the next
\* pending job if there is one.
C8_EmptyResultMarked ==
    \A p \in Calls("fetch") :
        LET e == trace[p]
            m == Cardinality({ q \in Calls("fetch") : q <= p })
        IN  /\ ( \/ e.body.fields = {}
                 \/ (e.body.fields = {"data"} /\ e.body.data = <<>>) )
                => e.res = "empty"
            /\ e.res = "empty" =>
                 /\ p = Len(trace) => pc \in {"mark", "killed"}
                 /\ p < Len(trace) =>
                       /\ trace[p + 1].op = "save"
                       /\ trace[p + 1].id = e.id
                       /\ e.id \in persisted
                 /\ p + 1 < Len(trace) => trace[p + 2].op = "sleep"
                 /\ p + 2 = Len(trace) =>
                       /\ pc \in {"fetch", "done", "killed"}
                       /\ pc = "fetch" => i = m + 1
                       /\ pc = "done" => m = Len(all_jobs)
                 /\ p + 2 < Len(trace) =>
                       /\ trace[p + 3].op = "fetch"
                       /\ trace[p + 3].id = all_jobs[m + 1].job_key

\* C8, witness: a run got a body without fields for one job and an empty
\* data list for another, stored nothing, marked both and went on to a
\* third job.
C8_Witness ==
    /\ Calls("store") = {}
    /\ \E p, q \in Calls("fetch") :
         /\ trace[p].body.fields = {}
         /\ trace[q].body.fields = {"data"}
         /\ trace[q].res = "empty"
         /\ {trace[p].id, trace[q].id} \subseteq persisted \ loaded
    /\ Cardinality(Calls("fetch")) = 3

\* C9: when every job id of the catalog is in the state a run loads, the
\* run ends at once with nothing to do: its only call is load_state, and
\* neither the persisted state nor the raw storage changes, then or until
\* the next process starts.
C9_NothingToDo ==
    [][ /\ (pc = "run" /\ CatalogIds \subseteq persisted) =>
              /\ pc' \in {"uptodate", "killed"}
              /\ persisted' = persisted
              /\ raw' = raw
              /\ \A q \in 1..Len(trace') : trace'[q].op = "load"
        /\ pc = "uptodate" =>
              /\ pc' \in {"run", "config_error"}
              /\ persisted' = persisted
              /\ raw' = raw
              /\ CatalogIds \subseteq loaded
      ]_vars

\* C9, witness: the first process finds every id of a three-job catalog in
\* the state document and has nothing to do.
C9_Witness ==
    /\ pc = "uptodate"
    /\ prev = "none"
    /\ Cardinality(CatalogIds) = 3
    /\ CatalogIds \subseteq loaded
    /\ persisted = initial
    /\ raw = <<>>

\* C10: for every catalog and every completion set, the list run() builds
\* holds exactly the jobs of the full plan whose job_key is not in the set,
\* in the order they have in the full plan, which is the order of
\* definition of the datasets and of their windows.
C10_PendingIsFilteredPlan ==
    JustPlanned =>
        /\ all_jobs = SelectSeq(Plan(catalog), LAMBDA job : job.job_key \notin loaded)
        /\ JobIds(all_jobs) = IdsInOrder(loaded)

\* C10, witness: of three planned jobs the second is complete; the list
\* holds the first and the third, in that order.
C10_Witness ==
    /\ RunPlanned
    /\ Len(Plan(catalog)) = 3
    /\ Len(all_jobs) = 2
    /\ all_jobs[1] = Plan(catalog)[1]
    /\ all_jobs[2] = Plan(catalog)[3]

\* The ids the catalogs of the model must give, written out: dataset key,
\* year_start, year_end, job id.
WrittenIds ==
    { <<"corn_production", 1990, 2024, "corn_production_1990_2024">>,
      <<"corn_production", 1950, 1989, "corn_production_1950_1989">>,
      <<"corn_production", 1990, 2025, "corn_production_1990_2025">>,
      <<"milk_production", 1950, 2025, "milk_production_1950_2025">>,
      <<"eggs_production", 1950, 2025, "eggs_production_1950_2025">> }

\* C11: planning from a state that holds no id of the catalog gives one job
\* per (dataset, window) place, in the order of definition of the datasets
\* and of their windows, each with the job_key "<key>_<year_start>_<year_end>";
\* a first dataset with the windows (1950,1989), (1990,2025) gives the two
\* jobs <key>_1950_1989 and <key>_1990_2025, in that order.
C11_PlanOnePerWindow ==
    (JustPlanned /\ loaded \cap CatalogIds = {}) =>
        /\ Len(all_jobs) = Cardinality(Slots)
        /\ \A s \in Slots :
             LET p == 1 + Cardinality({ t \in Slots : SlotBefore(t, s) })
                 job == all_jobs[p]
                 ds == catalog[s[1]]
             IN  /\ job.dataset_key = ds.key
                 /\ job.year_start = ds.year_ranges[s[2]][1]
                 /\ job.year_end = ds.year_ranges[s[2]][2]
                 /\ <<job.dataset_key, job.year_start, job.year_end, job.job_key>>
                      \in WrittenIds
        /\ catalog[1].year_ranges = << <<1950, 1989>>, <<1990, 2025>> >> =>
             /\ all_jobs[1].job_key = "corn_production_1950_1989"
             /\ all_jobs[2].job_key = "corn_production_1990_2025"
             /\ \A p \in 3..Len(all_jobs) : all_jobs[p].dataset_key # catalog[1].key

\* C11, witness: a run over a catalog of the two-window dataset followed by
\* a second dataset has planned its three jobs from an empty state.
C11_Witness ==
    /\ RunPlanned
    /\ loaded = {}
    /\ Len(catalog) = 2
    /\ catalog[1].year_ranges = << <<1950, 1989>>, <<1990, 2025>> >>
    /\ JobIds(all_jobs) = << "corn_production_1950_1989", "corn_production_1990_2025",
                             "milk_production_1950_2025" >>

\* The catalog of one dataset, corn_production, with the one window (1990, 2024).
CornCatalog ==
    << Dataset("corn_production", "Corn Production",
               "Corn production by state (totals)", << <<1990, 2024>> >>) >>

\* C12: with the catalog of the one dataset corn_production and its one
\* window (1990, 2024), no prior completion state and a fetch that returns
\* 3 records, the first run stores one artifact, named after
\* corn_production_1990_2024 (save_raw_json gets the name
\* nass_corn_production_1990_2024), whose payload has key corn_production,
\* the year bounds 1990 and 2024 and a data list of length 3; once the run
\* has marked the job the persisted state is {corn_production_1990_2024}.
C12_CornEndToEnd ==
    ( /\ catalog = CornCatalog
      /\ initial = {}
      /\ prev = "none"
      /\ \E p \in Calls("fetch") : Len(trace[p].body.data) = 3 /\ trace[p].res = "records" )
    =>
        /\ Cardinality(Calls("fetch")) = 1
        /\ pc \in {"store", "mark", "sleep", "done", "killed"}
        /\ Cardinality(Calls("store")) <= 1
        /\ pc \in {"mark", "sleep", "done"} =>
             /\ Cardinality(Calls("store")) = 1
             /\ DOMAIN raw = {"nass_corn_production_1990_2024"}
             /\ raw["nass_corn_production_1990_2024"].key = "corn_production"
             /\ raw["nass_corn_production_1990_2024"].year_start = 1990
             /\ raw["nass_corn_production_1990_2024"].year_end = 2024
             /\ Len(raw["nass_corn_production_1990_2024"].data) = 3
        /\ pc \in {"sleep", "done"} =>
             /\ persisted = {"corn_production_1990_2024"}
             /\ Cardinality(Calls("save")) = 1
        /\ pc \in {"store", "mark"} => persisted = {}

\* C12, witness: that run has returned, with the artifact stored and the id
\* persisted.
C12_Witness ==
    /\ catalog = CornCatalog
    /\ initial = {}
    /\ prev = "none"
    /\ pc = "done"
    /\ DOMAIN raw = {"nass_corn_production_1990_2024"}
    /\ Len(raw["nass_corn_production_1990_2024"].data) = 3
    /\ persisted = {"corn_production_1990_2024"}

\* C13: a fetch whose response body holds an error field, with or without a
\* data field, raises with the message of the remote service in its text
\* and hands no records to run(); run() does not catch it: the fetch is the
\* last call of the process, which has ended with that error, nothing of
\* the body is stored, and the job's id is not persisted.
C13_ErrorBodyRaises ==
    \A p \in Calls("fetch") :
        "error" \in trace[p].body.fields =>
            /\ trace[p].res = "raise"
            /\ p = Len(trace)
            /\ pc = "aborted"
            /\ err = "NASS API error: invalid commodity"
            /\ trace[p].id \notin persisted
            /\ trace[p].id \notin SavedIds(trace)
            /\ ArtifactName(all_jobs[i].dataset_key, all_jobs[i].year_start,
                            all_jobs[i].year_end)
                 \notin { trace[q].id : q \in Calls("store") }
            /\ all_jobs[i].job_key = trace[p].id

\* C13, witness: a body with both an error field and a data list of one
\* record has ended the run, after an earlier job was marked.
C13_Witness ==
    /\ pc = "aborted"
    /\ trace[Len(trace)].body.fields = {"error", "data"}
    /\ Len(trace[Len(trace)].body.data) = 1
    /\ Calls("save") # {}

\* C14: a process started without NASS_API_KEY ends in the configuration
\* error before anything else happens: it makes no call at all (no
\* load_state, no request, no save_raw_json, no save_state), plans and runs
\* no job, and leaves the persisted state and the raw storage as they were,
\* until the next process starts.
C14_NoKeyNoActivity ==
    [][ /\ ~api_key' =>
              /\ pc' = "config_error"
              /\ trace' = <<>>
              /\ all_jobs' = <<>>
              /\ err' # ""
              /\ persisted' = persisted
              /\ raw' = raw
        /\ ~api_key => (pc' \in {"run", "config_error"} /\ trace' = <<>>)
      ]_vars

\* C14, witness: after a run that was killed with a job in flight, a
\* process is started without the key and ends in the configuration error.
C14_Witness ==
    /\ pc = "config_error"
    /\ ~api_key
    /\ prev = "killed"
    /\ trace = <<>>
    /\ persisted # initial

\* C15: save_raw_json is called only for a job whose fetch just returned
\* records, under the name built from the job's dataset key and year bounds,
\* which no other planned job has; unless a process was killed between that
\* job's store and its mark and the job is still unmarked, the name was
\* never written before, in this run or an earlier one. A job is marked right after its store, or right after
\* a fetch that returned nothing, so an empty job is never stored.
C15_StoreOncePerJob ==
    [][ LET n == Len(trace') IN
        (n = Len(trace) + 1 /\ n >= 2) =>
          /\ trace'[n].op = "store" =>
               /\ trace[n - 1].op = "fetch"
               /\ trace[n - 1].res = "records"
               /\ trace[n - 1].id = Cur.job_key
               /\ trace'[n].id =
                    ArtifactName(Cur.dataset_key, Cur.year_start, Cur.year_end)
               /\ trace'[n].id \in DOMAIN raw'
               /\ Cur.job_key \notin torn => trace'[n].id \notin DOMAIN raw
               /\ \A p \in 1..Len(Plan(catalog)) :
                     LET j == Plan(catalog)[p] IN
                     j.job_key # Cur.job_key =>
                        ArtifactName(j.dataset_key, j.year_start, j.year_end)
                           # trace'[n].id
          /\ trace'[n].op = "save" =>
               \/ /\ trace[n - 1].op = "store"
                  /\ trace[n - 1].id =
                       ArtifactName(Cur.dataset_key, Cur.year_start, Cur.year_end)
               \/ /\ trace[n - 1].op = "fetch"
                  /\ trace[n - 1].res = "empty"
                  /\ trace[n - 1].id = Cur.job_key
                  /\ DOMAIN raw' = DOMAIN raw
          /\ (trace[n - 1].op = "fetch" /\ trace[n - 1].res = "records") =>
               trace'[n].op = "store"
      ]_vars

\* C15, witness: a run aborted on a fetch error, no process was ever killed
\* between a store and a mark, and the next run has stored two jobs and
\* marked one whose fetch returned nothing.
C15_Witness ==
    /\ prev = "aborted"
    /\ torn = {}
    /\ pc = "done"
    /\ Cardinality(DOMAIN raw) >= 2
    /\ \E p \in Calls("fetch") : trace[p].res = "empty"
    /\ Cardinality(Calls("store")) >= 1

----------------------------------------------------------------------------
(* Runs that are started again and again *)

InitLive == InitOver(LiveCatalogs)

\* The process is started with NASS_API_KEY set.
Reinvoked == ProcessStart /\ api_key'

\* fetch_data returns (records or none) instead of raising.
FetchReturns == Fetch /\ pc' \in {"store", "mark"}

\* The process is started again whenever it has ended; a step of run() that
\* comes up again and again is not killed every time; a fetch that is tried
\* again and again does not fail every time.
SpecLive ==
    /\ InitLive
    /\ [][Next]_vars
    /\ WF_vars(Reinvoked)
    /\ SF_vars(RunStart)
    /\ SF_vars(FetchReturns)
    /\ SF_vars(Store)
    /\ SF_vars(Mark)
    /\ SF_vars(Sleep)

\* C16: when the process is started again after every end and every job's
\* fetch eventually returns, at some point every job id of the catalog is
\* persisted and a run finds nothing to do; and a run that reaches its end
\* has made exactly one fetch_data call, none of which raised, for each job
\* that was pending when it loaded the state.
C16_AllJobsEventuallyDone ==
    /\ [](pc = "done" =>
            /\ Cardinality(Calls("fetch")) = Cardinality(CatalogIds \ loaded)
            /\ Cardinality(CatalogIds \ loaded) = Len(all_jobs)
            /\ \A p \in Calls("fetch") : trace[p].res # "raise"
            /\ CatalogIds \subseteq persisted)
    /\ [](pc = "uptodate" => (Calls("fetch") = {} /\ CatalogIds \subseteq loaded))
    /\ <>(pc = "uptodate" /\ CatalogIds \subseteq persisted)

\* C16, witness: none of the catalog's jobs was done at first; now all are,
\* one of them without data, and a run after one that returned finds
\* nothing to do.
C16_Witness ==
    /\ pc = "uptodate"
    /\ CatalogIds \subseteq persisted
    /\ CatalogIds \cap initial = {}
    /\ Cardinality(DOMAIN raw) = 2
    /\ prev = "done"

\* C17: in one run, what lies between two consecutive fetch_data calls ends
\* with the save_state of the earlier job followed by exactly one sleep;
\* the earlier job's id is persisted by then, whether its fetch returned
\* records (then the store comes first) or none.
C17_OneSleepBetweenFetches ==
    \A p \in Calls("fetch") : \A q \in Calls("fetch") :
        (p < q /\ \A m \in (p + 1)..(q - 1) : trace[m].op # "fetch") =>
            /\ Cardinality({ m \in p..q : trace[m].op = "sleep" }) = 1
            /\ trace[q - 1].op = "sleep"
            /\ trace[q - 2].op = "save"
            /\ trace[q - 2].id = trace[p].id
            /\ trace[p].id \in persisted
            /\ trace[p].res = "empty" => q = p + 3
            /\ trace[p].res = "records" =>
                  (q = p + 4 /\ trace[p + 1].op = "store")

\* C17, witness: a run has fetched three jobs, the first without data and
\* the second with data.
C17_Witness ==
    /\ Cardinality(Calls("fetch")) = 3
    /\ Cardinality(Calls("sleep")) = 2
    /\ trace[2].res = "empty"
    /\ trace[5].res = "records"

\* C18: the process has made exactly one get() call for each fetch_data
\* call, whatever the responses were; a fetch_data call that raised, on an
\* error body or a failure of the transport, is the last call of the process.
C18_OneRequestPerFetch ==
    /\ requests = Cardinality(Calls("fetch"))
    /\ \A p \in Calls("fetch") : trace[p].res = "raise" => p = Len(trace)

\* C18, witness: a fetch returned the largest result, then the next one
\* failed in the transport; two requests were made.
C18_Witness ==
    /\ pc = "aborted"
    /\ requests = 2
    /\ \E p \in Calls("fetch") : Len(trace[p].body.data) = MaxRecords
    /\ trace[Len(trace)].body = TransportBody

----------------------------------------------------------------------------
(* Catalogs with a repeated window *)

InitRepeat == InitOver(CatalogsOver(RepeatPool))

SpecRepeat == InitRepeat /\ [][Next]_vars

\* C19: within one run no job id is passed to fetch_data more than once,
\* also when the catalog lists a window of a dataset twice.
C19_NoIdFetchedTwice ==
    \A p \in Calls("fetch") : \A q \in Calls("fetch") :
        p # q => trace[p].id # trace[q].id

====
